---- MODULE Spec2Model ----
(***************************************************************************)
(* Constantine: the module level pseudo-constness analysis.                *)
(*                                                                         *)
(* ModuleAnalysis::HandleTranslationUnit creates one ModuleVisitor for the *)
(* selected Target, lets it visit every FunctionDecl of the translation    *)
(* unit once and then calls Dump.  The visitor of the PseudoConstness      *)
(* target (AnalyseVariableUsage) keeps a PseudoConstnessAnalysisState      *)
(* (Candidates, Changed) and two method sets (ConstCandidates,             *)
(* StaticCandidates).  The scope summary of a function body                *)
(* (ScopeAnalysis::AnalyseThis) is the input of every handler: the key     *)
(* sets of its Changed and Used maps.                                      *)
(*                                                                         *)
(* Spec draws these key sets freely for every body.  SpecObjectVariables   *)
(* runs the same visitor over bodies given as statements, and computes the *)
(* summary with the visitor methods of ScopeAnalysis.cpp.                  *)
(***************************************************************************)
EXTENDS Naturals, FiniteSets, Sequences

VARIABLES
    State,            \* ModuleAnalysis::State, the Target of this run
    Kind,             \* the declaration attributes of the methods of the record
    Visited,          \* FunctionDecls the traversal has visited already
    Current,          \* the FunctionDecl handed to the last handler
    Body,             \* the body of Current, as the traversals see it
    Tree,             \* F->getBody() of the functions analysed, as a statement
    Candidates,       \* PseudoConstnessAnalysisState::Candidates
    Changed,          \* PseudoConstnessAnalysisState::Changed
    ConstCandidates,  \* AnalyseVariableUsage::ConstCandidates
    StaticCandidates, \* AnalyseVariableUsage::StaticCandidates
    Functions,        \* DebugFunctionDeclarations::Functions
    Result,           \* DebugVariableDeclarations::Result
    Mutated,          \* history: keys of the Changed maps of all bodies analysed
    Reports,          \* diagnostics handed to the DiagnosticsEngine
    Dumped,           \* functions whose trace Dump has reported already
    pc                \* "traverse", "dump" or "done"

vars == <<State, Kind, Visited, Current, Body, Tree, Candidates, Changed,
          ConstCandidates, StaticCandidates, Functions, Result, Mutated,
          Reports, Dumped, pc>>

(***************************************************************************)
(* Bounds of the model.                                                    *)
(***************************************************************************)
\* the largest number of distinct declarations one function body refers to
MaxUses == 1

\* the largest number of expression statements in one function body
MaxStmts == 1

(***************************************************************************)
(* The enum Target.                                                        *)
(***************************************************************************)
Target == {"FuncionDeclaration", "VariableDeclaration", "VariableChanges",
           "VariableUsages", "PseudoConstness"}

(***************************************************************************)
(* The declarations of the translation unit (what the AST provides).       *)
(*                                                                         *)
(*   // R.hpp                                                              *)
(*   struct R { static int & m;                                            *)
(*              T set(...) { ... }        // defined in the header         *)
(*              <X>; };                                                    *)
(*   // main file                                                          *)
(*   #include "R.hpp"                                                      *)
(*   void ext(int &);                     // no body                       *)
(*   <X> { ... }                          // R::X, defined out of line     *)
(*   void f() { S s; int & k = s.m; int const & c = s.m; ... }             *)
(*                                                                         *)
(* X is a method of R of any kind, see Kinds.                              *)
(*                                                                         *)
(* The expression rules of the scope analysis are followed on a second     *)
(* translation unit, after test/PseudoConstAnalysis/ObjectVariables.cpp:   *)
(*                                                                         *)
(*   class Simple { int m_id;                                              *)
(*     public: int getId() const;                                          *)
(*             Simple & setId(int);                                        *)
(*             Simple & operator+=(int);                                   *)
(*             Simple & operator<<(int &); };                              *)
(*   struct Public { int m_id; };                                          *)
(*   void change(int &);        void dont_change(int const &);             *)
(*   void take(int * p);        void twice(int);                           *)
(*   void variadic(int const &, ...);                                      *)
(*   void test_method() { Simple o; int j = 0; ... }                       *)
(*   void f() { Public s = { 2 }; int & k = s.m_id;                        *)
(*              int const & c = s.m_id; ... }                              *)
(***************************************************************************)
Variables == {"s", "k", "c", "m", "o", "j"}

\* a QualType: is it a reference, and is the type (for a reference: the
\* type referred to) const qualified
QualType == [reference : BOOLEAN, const : BOOLEAN]

getType(V) ==
    CASE V = "s" -> [reference |-> FALSE, const |-> FALSE]
      [] V = "k" -> [reference |-> TRUE,  const |-> FALSE]
      [] V = "c" -> [reference |-> TRUE,  const |-> TRUE]
      [] V = "m" -> [reference |-> TRUE,  const |-> FALSE]
      [] V = "o" -> [reference |-> FALSE, const |-> FALSE]
      [] V = "j" -> [reference |-> FALSE, const |-> FALSE]

\* the variables the initializer of a reference variable names
getInit(V) ==
    CASE V = "k" -> {"s"}
      [] V = "c" -> {"s"}
      [] OTHER   -> {}

FunctionDecls == {"f", "ext", "set", "X"}
CXXMethodDecls == {"set", "X"}

\* FunctionDecl::isThisDeclarationADefinition
isThisDeclarationADefinition(F) == F # "ext"

\* SourceManager::isFromMainFile(D->getLocation())
isFromMainFile(D) == D \notin {"m", "set"}

\* the attributes of a CXXMethodDecl
MethodAttr == [isUserProvided : BOOLEAN, isVirtual : BOOLEAN,
               isStatic : BOOLEAN, isConst : BOOLEAN,
               isCopyAssignmentOperator : BOOLEAN,
               class : {"CXXMethodDecl", "CXXConstructorDecl",
                        "CXXConversionDecl", "CXXDestructorDecl"}]

Method == [isUserProvided |-> TRUE, isVirtual |-> FALSE, isStatic |-> FALSE,
           isConst |-> FALSE, isCopyAssignmentOperator |-> FALSE,
           class |-> "CXXMethodDecl"]

\* what the method X of the record can be
Kinds ==
    { Method,
      [Method EXCEPT !.isConst = TRUE],
      [Method EXCEPT !.isStatic = TRUE],
      [Method EXCEPT !.isVirtual = TRUE],
      [Method EXCEPT !.isUserProvided = FALSE],
      [Method EXCEPT !.isCopyAssignmentOperator = TRUE],
      [Method EXCEPT !.class = "CXXConstructorDecl"],
      [Method EXCEPT !.class = "CXXDestructorDecl"],
      [Method EXCEPT !.class = "CXXConversionDecl", !.isConst = TRUE] }

\* the declaration tables of the translation units analysed
ASTs ==
    { [M \in CXXMethodDecls |-> IF M = "set" THEN Method ELSE x] :
        x \in Kinds }

(***************************************************************************)
(* DeclarationCollector: which declarations belong to a function, to a     *)
(* record, and what a variable refers to.                                  *)
(***************************************************************************)
\* the parameters and the local variables declared in the function
LocalsOf(F) ==
    CASE F = "f"           -> {"s", "k", "c"}
      [] F = "test_method" -> {"o", "j"}
      [] OTHER             -> {}

\* the data members of the record the collector yields
MembersOfRecord == {"m"}

GetVariablesFromContext(F, WithRecordScope) ==
    LocalsOf(F) \cup
    (IF WithRecordScope /\ F \in CXXMethodDecls THEN MembersOfRecord ELSE {})

GetVariablesFromRecord == MembersOfRecord

GetMemberVariablesAndReferences == MembersOfRecord

GetMethodsFromRecord == CXXMethodDecls

\* a reference variable is an alias of what its initializer names
RECURSIVE GetReferedVariables(_)
GetReferedVariables(V) ==
    {V} \cup
    (IF getType(V).reference
        THEN UNION { GetReferedVariables(U) : U \in getInit(V) }
        ELSE {})

(***************************************************************************)
(* Function bodies.  A body is given by what the two traversals of         *)
(* ScopeAnalysis::AnalyseThis and IsCXXThisExpr::Check find in it:         *)
(* changed, the declarations a mutating expression targets; used, the      *)
(* declarations it refers to; this, whether it mentions the enclosing      *)
(* instance.                                                               *)
(***************************************************************************)
\* the declarations the body of F can name: its own variables, the static
\* member of R and, in a method of R, the other method of R
VisibleFrom(F) ==
    LocalsOf(F) \cup MembersOfRecord \cup
    (IF F \in CXXMethodDecls THEN CXXMethodDecls \ {F} ELSE {})

NoBody == [changed |-> {}, used |-> {}, this |-> FALSE]

\* only the body of a non-static method can mention an enclosing instance
ThisIn(F) ==
    IF F \in CXXMethodDecls /\ ~ Kind[F].isStatic THEN BOOLEAN ELSE {FALSE}

\* every target of a change is found in a DeclRefExpr, which the access
\* traversal visits too: the changed declarations are among the used ones
Bodies(F) ==
    UNION { { [changed |-> ch, used |-> u, this |-> t] :
                ch \in SUBSET (u \cap Variables), t \in ThisIn(F) } :
            u \in { v \in SUBSET VisibleFrom(F) : Cardinality(v) <= MaxUses } }

\* ScopeAnalysis::AnalyseThis: the key sets of the two maps
AnalyseThis(Stmt) == [Changed |-> Stmt.changed, Used |-> Stmt.used]

WasChanged(A, Decl) == Decl \in A.Changed

WasReferenced(A, Decl) == Decl \in A.Used

IsCXXThisExprCheck(Stmt) == Stmt.this

(***************************************************************************)
(* Statements and expressions.  A node of the AST is given by its class,   *)
(* the declaration it names (DeclRefExpr::getDecl, MemberExpr::            *)
(* getMemberDecl), its opcode, its type and its children in the order      *)
(* RecursiveASTVisitor walks them.  A type is its spelling without         *)
(* qualifiers, whether it is a reference or a pointer, and whether the     *)
(* type (for a reference or a pointer: the pointee) is const qualified.    *)
(***************************************************************************)
Type == [name : {"", "int", "bool", "void", "Simple", "Public", "function"},
         reference : BOOLEAN, pointer : BOOLEAN, const : BOOLEAN]

ValueType(Name, Const) ==
    [name |-> Name, reference |-> FALSE, pointer |-> FALSE, const |-> Const]

ReferenceType(Name, Const) ==
    [name |-> Name, reference |-> TRUE, pointer |-> FALSE, const |-> Const]

PointerType(Name, Const) ==
    [name |-> Name, reference |-> FALSE, pointer |-> TRUE, const |-> Const]

\* clang::QualType(), the null type
Empty == ValueType("", FALSE)

isReferenceType(T) == T.reference

isPointerType(T) == T.pointer

getPointeeType(T) ==
    IF T.reference \/ T.pointer THEN ValueType(T.name, T.const) ELSE Empty

\* the functions and the members the expressions name
FunctionNames == {"change", "dont_change", "take", "twice", "variadic"}
MethodNames == {"getId", "setId", "operator+=", "operator<<"}
FieldNames == {"m_id"}

\* FunctionDecl::getParamDecl(i)->getType(), for i + 1 in the domain
getParamDecls(F) ==
    CASE F = "change"      -> << ReferenceType("int", FALSE) >>
      [] F = "dont_change" -> << ReferenceType("int", TRUE) >>
      [] F = "take"        -> << PointerType("int", FALSE) >>
      [] F = "twice"       -> << ValueType("int", FALSE) >>
      [] F = "variadic"    -> << ReferenceType("int", TRUE) >>
      [] F = "getId"       -> << >>
      [] F = "setId"       -> << ValueType("int", FALSE) >>
      [] F = "operator+="  -> << ValueType("int", FALSE) >>
      [] F = "operator<<"  -> << ReferenceType("int", FALSE) >>

getNumParams(F) == Len(getParamDecls(F))

\* the member's type is a FunctionProtoType
isFunctionProtoType(M) == M \in MethodNames

\* FunctionProtoType::getTypeQuals() & Qualifiers::Const
hasConstTypeQuals(M) == M = "getId"

\* CXXMethodDecl::isStatic of the methods of Simple
isStaticMethod(M) == FALSE

\* the type of the expression that names D
getTypeOfDecl(D) ==
    CASE D \in {"o"}          -> ValueType("Simple", FALSE)
      [] D \in {"s"}          -> ValueType("Public", FALSE)
      [] D \in Variables \ {"o", "s"}
                              -> ValueType("int", getType(D).const)
      [] D \in FieldNames     -> ValueType("int", FALSE)
      [] OTHER                -> ValueType("function", FALSE)

Node(Class, Decl, Opcode, T, Children) ==
    [class |-> Class, decl |-> Decl, opcode |-> Opcode, type |-> T,
     children |-> Children]

IntegerLiteral == Node("IntegerLiteral", "", "", ValueType("int", FALSE), << >>)

DeclRefExpr(D) == Node("DeclRefExpr", D, "", getTypeOfDecl(D), << >>)

ImplicitCastExpr(T, E) == Node("ImplicitCastExpr", "", "", T, << E >>)

\* the lvalue to rvalue conversion of a read
Read(E) == ImplicitCastExpr(ValueType(E.type.name, FALSE), E)

MemberExpr(Base, M) ==
    Node("MemberExpr", M, "", getTypeOfDecl(M), << Base >>)

UnaryOperator(Opcode, E) ==
    Node("UnaryOperator", "", Opcode,
         IF Opcode = "&" THEN PointerType(E.type.name, E.type.const)
                         ELSE E.type,
         << E >>)

BinaryOperator(Opcode, LHS, RHS) ==
    Node("BinaryOperator", "", Opcode, LHS.type, << LHS, RHS >>)

\* a call of the function F: the callee, then the arguments
CallExpr(F, Args) ==
    Node("CallExpr", "", "", ValueType("void", FALSE),
         << ImplicitCastExpr(PointerType("function", FALSE), DeclRefExpr(F)) >>
         \o Args)

\* a call through a member access: the arguments do not hold the object
CXXMemberCallExpr(Callee, Args) ==
    Node("CXXMemberCallExpr", "", "", ValueType("Simple", FALSE),
         << Callee >> \o Args)

\* a call written with an operator: argument 0 is the object
CXXOperatorCallExpr(F, Args) ==
    Node("CXXOperatorCallExpr", "", "", ValueType("Simple", FALSE),
         << ImplicitCastExpr(PointerType("function", FALSE), DeclRefExpr(F)) >>
         \o Args)

DeclStmt(Inits) == Node("DeclStmt", "", "", Empty, Inits)

CompoundStmt(Stmts) == Node("CompoundStmt", "", "", Empty, Stmts)

NoStmt == CompoundStmt(<< >>)

isCallExpr(N) ==
    N.class \in {"CallExpr", "CXXMemberCallExpr", "CXXOperatorCallExpr"}

isCastExpr(N) == N.class = "ImplicitCastExpr"

\* Expr::IgnoreImpCasts
RECURSIVE IgnoreImpCasts(_)
IgnoreImpCasts(E) ==
    IF isCastExpr(E) THEN IgnoreImpCasts(E.children[1]) ELSE E

\* CallExpr::getDirectCallee: the function or method the callee names, or ""
getDirectCallee(N) ==
    LET Callee == IgnoreImpCasts(N.children[1])
    IN  IF /\ Callee.class \in {"DeclRefExpr", "MemberExpr"}
           /\ Callee.decl \in FunctionNames \cup MethodNames
            THEN Callee.decl
            ELSE ""

getNumArgs(N) == Len(N.children) - 1

getArg(N, It) == N.children[It + 2]

isAssignmentOp(Opcode) == Opcode \in {"=", "+="}

isIncrementDecrementOp(Opcode) == Opcode \in {"++", "--"}

\* RecursiveASTVisitor::TraverseStmt: the nodes below E, a node before its
\* children
RECURSIVE TraverseStmt(_)
RECURSIVE TraverseStmts(_)
TraverseStmt(E) == << E >> \o TraverseStmts(E.children)

TraverseStmts(Es) ==
    IF Es = << >> THEN << >>
    ELSE TraverseStmt(Head(Es)) \o TraverseStmts(Tail(Es))

(***************************************************************************)
(* ScopeAnalysis: UsageExtractor and the two collectors.  A usage is the   *)
(* declaration and the type; a map of usages is the set of its usages.     *)
(***************************************************************************)
\* SetVariable keeps a VarDecl or a FieldDecl
isVarOrFieldDecl(D) == D \in Variables \cup FieldNames

\* the node calls SetType
SetsType(N) ==
    \/ N.class = "DeclRefExpr"
    \/ isCastExpr(N)
    \/ N.class = "UnaryOperator" /\ N.opcode \in {"&", "*"}

\* the node calls SetVariable with a declaration it keeps
SetsVariable(N) == N.class = "DeclRefExpr" /\ isVarOrFieldDecl(N.decl)

\* UsageExtractor::GetUsage: SetVariable overwrites, SetType sets once
GetUsage(E) ==
    LET Ns == TraverseStmt(E)
        Vs == SelectSeq(Ns, SetsVariable)
        Ts == SelectSeq(Ns, SetsType)
    IN  [decl |-> IF Vs = << >> THEN "" ELSE Vs[Len(Vs)].decl,
         type |-> IF Ts = << >> THEN Empty ELSE Ts[1].type]

\* UsageRefCollector::AddToResults: a usage without a declaration is dropped
AddToResults(Us) == { U \in Us : U.decl # "" }

VisitBinaryOperator(N) ==
    IF isAssignmentOp(N.opcode) THEN { GetUsage(N.children[1]) } ELSE {}

VisitUnaryOperator(N) ==
    IF isIncrementDecrementOp(N.opcode)
        THEN { GetUsage(N.children[1]) }
        ELSE {}

\* VisitMemberExpr that adds the object of every method call
VisitMemberExprOfAnyMethod(N) ==
    IF isFunctionProtoType(N.decl) THEN { GetUsage(N) } ELSE {}

VisitMemberExpr(N) ==
    IF isFunctionProtoType(N.decl) /\ ~ hasConstTypeQuals(N.decl)
        THEN { GetUsage(N) }
        ELSE {}

\* IsNonConstReferenced that does not ask for the pointee's qualifier
IsReferenced(T) == isReferenceType(T) \/ isPointerType(T)

IsNonConstReferenced(T) ==
    /\ isReferenceType(T) \/ isPointerType(T)
    /\ ~ getPointeeType(T).const

Min(A, B) == IF A < B THEN A ELSE B

VisitCallExpr(N) ==
    LET F == getDirectCallee(N)
    IN  IF F # ""
            THEN LET Args == Min(getNumArgs(N), getNumParams(F))
                 IN  { [GetUsage(getArg(N, It)) EXCEPT
                            !.type = getPointeeType(getParamDecls(F)[It + 1])] :
                       It \in { I \in 0..(Args - 1) :
                                  IsNonConstReferenced(getParamDecls(F)[I + 1]) } }
            ELSE {}

\* the usages the visitor methods of VariableChangeCollector add at node N
VisitChange(N) ==
    (IF N.class = "BinaryOperator" THEN VisitBinaryOperator(N) ELSE {})
    \cup (IF N.class = "UnaryOperator" THEN VisitUnaryOperator(N) ELSE {})
    \cup (IF N.class = "MemberExpr" THEN VisitMemberExpr(N) ELSE {})
    \cup (IF isCallExpr(N) THEN VisitCallExpr(N) ELSE {})

\* the set of the elements of a sequence
Range(Ns) == { Ns[I] : I \in 1..Len(Ns) }

VariableChangeCollector(Stmt) ==
    AddToResults(UNION { VisitChange(N) : N \in Range(TraverseStmt(Stmt)) })

\* VariableAccessCollector::VisitDeclRefExpr
VariableAccessCollector(Stmt) ==
    AddToResults({ GetUsage(N) :
                     N \in { M \in Range(TraverseStmt(Stmt)) :
                               M.class = "DeclRefExpr" } })

\* the keys of a map of usages
KeysOf(Us) == { U.decl : U \in Us }

\* the body Stmt as the traversals see it
Traversals(Stmt) ==
    [changed |-> KeysOf(VariableChangeCollector(Stmt)),
     used |-> KeysOf(VariableAccessCollector(Stmt)),
     this |-> FALSE]

(***************************************************************************)
(* The bodies of the functions of ObjectVariables.cpp: the declaration     *)
(* statements of the function, then up to MaxStmts expression statements.  *)
(***************************************************************************)
\* the function definitions of the translation unit
ObjectVariables == {"test_method", "f"}

\* the declaration statements of F, with the initializers they hold
Decls(F) ==
    CASE F = "test_method" ->
            << DeclStmt(<< Node("CXXConstructExpr", "", "",
                                ValueType("Simple", FALSE), << >>) >>),
               DeclStmt(<< IntegerLiteral >>) >>
      [] F = "f" ->
            << DeclStmt(<< Node("InitListExpr", "", "",
                                ValueType("Public", FALSE),
                                << IntegerLiteral >>) >>),
               DeclStmt(<< MemberExpr(DeclRefExpr("s"), "m_id") >>),
               DeclStmt(<< ImplicitCastExpr(ValueType("int", TRUE),
                              MemberExpr(DeclRefExpr("s"), "m_id")) >>) >>

\* the expression statements F can hold
Stmts(F) ==
    CASE F = "test_method" ->
            LET o == DeclRefExpr("o")
                j == DeclRefExpr("j")
                getId == CXXMemberCallExpr(MemberExpr(o, "getId"), << >>)
                setId(a) == CXXMemberCallExpr(MemberExpr(o, "setId"), << a >>)
            IN  { getId,
                  setId(IntegerLiteral),
                  CXXMemberCallExpr(MemberExpr(setId(Read(j)), "setId"),
                                    << IntegerLiteral >>),
                  BinaryOperator("=", j, getId),
                  UnaryOperator("++", j),
                  CallExpr("change", << j >>),
                  CallExpr("dont_change",
                    << ImplicitCastExpr(ValueType("int", TRUE), j) >>),
                  CallExpr("take", << UnaryOperator("&", j) >>),
                  CallExpr("twice", << Read(j) >>),
                  CallExpr("variadic",
                    << ImplicitCastExpr(ValueType("int", TRUE), j),
                       Read(j) >>),
                  CXXOperatorCallExpr("operator+=", << o, IntegerLiteral >>),
                  CXXOperatorCallExpr("operator<<", << o, j >>) }
      [] F = "f" ->
            LET s == DeclRefExpr("s")
                k == DeclRefExpr("k")
                c == DeclRefExpr("c")
                m_id == MemberExpr(s, "m_id")
            IN  { BinaryOperator("=", m_id, IntegerLiteral),
                  BinaryOperator("=", k, IntegerLiteral),
                  UnaryOperator("-", Read(c)),
                  CallExpr("change", << m_id >>),
                  CallExpr("dont_change",
                    << ImplicitCastExpr(ValueType("int", TRUE), m_id) >>),
                  CallExpr("dont_change", << c >>) }

\* the sequences of up to N elements of Set
RECURSIVE SeqsUpTo(_, _)
SeqsUpTo(Set, N) ==
    IF N = 0 THEN { << >> }
    ELSE SeqsUpTo(Set, N - 1)
         \cup { Append(Ss, S) :
                  Ss \in { Ts \in SeqsUpTo(Set, N - 1) : Len(Ts) = N - 1 },
                  S \in Set }

\* FunctionDecl::getBody
getBody(F) ==
    { CompoundStmt(Decls(F) \o Ss) : Ss \in SeqsUpTo(Stmts(F), MaxStmts) }

(***************************************************************************)
(* PseudoConstnessAnalysisState.  S is the pair of its two sets.           *)
(***************************************************************************)
getNonReferenceType(T) == [reference |-> FALSE, const |-> T.const]

\* a reference type itself carries no const qualifier
isConstQualified(T) == (~ T.reference) /\ T.const

\* IsConst that asks the declared type, not its non-reference type
IsConstOfDeclaredType(D) == isConstQualified(getType(D))

IsConst(D) == isConstQualified(getNonReferenceType(getType(D)))

\* RegisterChange that forgets Candidates.erase(V)
RegisterChangeKeepsCandidate(S, V) ==
    [Candidates |-> S.Candidates, Changed |-> S.Changed \cup {V}]

RegisterChange(S, V) ==
    [Candidates |-> S.Candidates \ {V}, Changed |-> S.Changed \cup {V}]

\* boost::for_each(GetReferedVariables(V), RegisterChange)
RECURSIVE RegisterChanges(_, _)
RegisterChanges(S, Vs) ==
    IF Vs = {} THEN S
    ELSE LET V == CHOOSE W \in Vs : TRUE
         IN  RegisterChanges(RegisterChange(S, V), Vs \ {V})

\* Eval that does not look V up in Changed
EvalIgnoresChanged(S, A, V) ==
    IF WasChanged(A, V)
        THEN RegisterChanges(S, GetReferedVariables(V))
    ELSE IF ~ IsConst(V)
        THEN [S EXCEPT !.Candidates = @ \cup {V}]
    ELSE S

\* Eval that registers the change of V alone, not of what V refers to
EvalOfTheVariableOnly(S, A, V) ==
    IF WasChanged(A, V)
        THEN RegisterChange(S, V)
    ELSE IF V \notin S.Changed
        THEN IF ~ IsConst(V)
                THEN [S EXCEPT !.Candidates = @ \cup {V}]
                ELSE S
    ELSE S

Eval(S, A, V) ==
    IF WasChanged(A, V)
        THEN RegisterChanges(S, GetReferedVariables(V))
    ELSE IF V \notin S.Changed
        THEN IF ~ IsConst(V)
                THEN [S EXCEPT !.Candidates = @ \cup {V}]
                ELSE S
    ELSE S

\* boost::for_each(Vs, Eval) in the order Vs of the std::set
RECURSIVE EvalEach(_, _, _)
EvalEach(S, A, Vs) ==
    IF Vs = << >> THEN S
    ELSE EvalEach(Eval(S, A, Head(Vs)), A, Tail(Vs))

\* the orders a std::set of declaration pointers can be iterated in
Orders(Set) ==
    { o \in [1..Cardinality(Set) -> Set] :
        \A i, j \in 1..Cardinality(Set) : i # j => o[i] # o[j] }

(***************************************************************************)
(* Predicates on methods.                                                  *)
(***************************************************************************)
\* IsJustAMethod that lets constructors and destructors through
IsJustAMethodOrStructor(F) ==
    /\ Kind[F].isUserProvided
    /\ ~ Kind[F].isVirtual
    /\ ~ Kind[F].isCopyAssignmentOperator
    /\ Kind[F].class # "CXXConversionDecl"

IsJustAMethod(F) ==
    /\ Kind[F].isUserProvided
    /\ ~ Kind[F].isVirtual
    /\ ~ Kind[F].isCopyAssignmentOperator
    /\ Kind[F].class # "CXXConstructorDecl"
    /\ Kind[F].class # "CXXConversionDecl"
    /\ Kind[F].class # "CXXDestructorDecl"

IsMutatingMethod(F) == (~ Kind[F].isStatic) /\ (~ Kind[F].isConst)

IsMemberMethod(F) == ~ Kind[F].isStatic

\* the guard of the method verdict in OnCXXMethodDecl
IsCheckedMethod(F) ==
    /\ ~ Kind[F].isVirtual
    /\ ~ Kind[F].isStatic
    /\ Kind[F].isUserProvided
    /\ IsJustAMethod(F)

\* MemberChanges that counts the members referred to by name only
MemberChangesOfFields(A) ==
    Cardinality({ V \in GetMemberVariablesAndReferences : WasChanged(A, V) /\ ~ getType(V).reference })

MemberChanges(A) ==
    Cardinality({ V \in GetMemberVariablesAndReferences : WasChanged(A, V) })

FunctionChanges(A) ==
    Cardinality({ M \in { N \in GetMethodsFromRecord : IsMutatingMethod(N) } :
                    WasReferenced(A, M) })

MemberAccess(A) ==
    Cardinality({ V \in GetMemberVariablesAndReferences : WasReferenced(A, V) })

\* FunctionAccess that filters with IsMutatingMethod
FunctionAccessOfMutating(A) ==
    Cardinality({ M \in { N \in GetMethodsFromRecord : IsMutatingMethod(N) } :
                    WasReferenced(A, M) })

FunctionAccess(A) ==
    Cardinality({ M \in { N \in GetMethodsFromRecord : IsMemberMethod(N) } :
                    WasReferenced(A, M) })

\* the verdict without the test of F->isConst() in the else branch
MethodVerdictOfAnyQualifier(F, A, Stmt) ==
    IF IsCheckedMethod(F)
        THEN IF (0 = MemberChanges(A)) /\ (0 = FunctionChanges(A))
                THEN IF /\ 0 = MemberAccess(A)
                        /\ 0 = FunctionAccess(A)
                        /\ ~ IsCXXThisExprCheck(Stmt)
                        THEN "static"
                        ELSE "const"
                ELSE "none"
        ELSE "none"

\* the verdict of OnCXXMethodDecl on the method itself
MethodVerdict(F, A, Stmt) ==
    IF IsCheckedMethod(F)
        THEN IF (0 = MemberChanges(A)) /\ (0 = FunctionChanges(A))
                THEN IF /\ 0 = MemberAccess(A)
                        /\ 0 = FunctionAccess(A)
                        /\ ~ IsCXXThisExprCheck(Stmt)
                        THEN "static"
                     ELSE IF ~ Kind[F].isConst THEN "const"
                     ELSE "none"
                ELSE "none"
        ELSE "none"


(***************************************************************************)
(* Diagnostics.                                                            *)
(***************************************************************************)
Report(Severity, Message, V) ==
    [severity |-> Severity, message |-> Message, name |-> V]

ReportVariablePseudoConstness(V) ==
    Report("warning", "variable '%0' could be declared as const", V)

ReportFunctionPseudoConstness(V) ==
    Report("warning", "function '%0' could be declared as const", V)

ReportFunctionPseudoStaticness(V) ==
    Report("warning", "function '%0' could be declared as static", V)

ReportVariableDeclaration(V) ==
    Report("note", "variable '%0' declared here", V)

ReportFunctionDeclaration(V) ==
    Report("note", "function '%0' declared here", V)

IsItFromMainModule(D) == isFromMainFile(D)

\* PseudoConstnessAnalysisState::GenerateReports
GenerateReports(S) ==
    { ReportVariablePseudoConstness(V) :
        V \in { W \in S.Candidates : IsItFromMainModule(W) } }

(***************************************************************************)
(* The state after construction: ModuleAnalysis::ModuleAnalysis and        *)
(* ModuleVisitor::CreateVisitor.                                           *)
(***************************************************************************)
Init ==
    /\ State \in Target
    /\ Kind \in ASTs
    /\ Visited = {}
    /\ Current = "none"
    /\ Body = NoBody
    /\ Tree = [F \in ObjectVariables |-> NoStmt]
    /\ Candidates = {}
    /\ Changed = {}
    /\ ConstCandidates = {}
    /\ StaticCandidates = {}
    /\ Functions = {}
    /\ Result = {}
    /\ Mutated = {}
    /\ Reports = {}
    /\ Dumped = {}
    /\ pc = "traverse"

\* ModuleVisitor::VisitFunctionDecl reaches F, which it has not seen yet
Visits(F) ==
    /\ pc = "traverse"
    /\ F \in FunctionDecls \ Visited
    /\ Visited' = Visited \cup {F}

(***************************************************************************)
(* ModuleVisitor::VisitFunctionDecl on a declaration without a body.       *)
(***************************************************************************)
VisitDeclaration(F) ==
    /\ Visits(F)
    /\ ~ isThisDeclarationADefinition(F)
    /\ UNCHANGED <<Tree, State, Kind, Current, Body, Candidates, Changed,
                   ConstCandidates, StaticCandidates, Functions, Result,
                   Mutated, Reports, Dumped, pc>>

(***************************************************************************)
(* DebugFunctionDeclarations (and the two trace visitors derived from it). *)
(***************************************************************************)
DebugFunctionDeclarationsOnDecl(F) ==
    /\ Visits(F)
    /\ isThisDeclarationADefinition(F)
    /\ State \in {"FuncionDeclaration", "VariableChanges", "VariableUsages"}
    /\ Functions' = Functions \cup {F}
    /\ Current' = F
    /\ UNCHANGED <<Tree, State, Kind, Body, Candidates, Changed, ConstCandidates,
                   StaticCandidates, Result, Mutated, Reports, Dumped, pc>>

DebugFunctionDeclarationsDump ==
    /\ pc = "traverse"
    /\ State = "FuncionDeclaration"
    /\ Reports' = { ReportFunctionDeclaration(F) : F \in Functions }
    /\ pc' = "done"
    /\ UNCHANGED <<Tree, State, Kind, Visited, Current, Body, Candidates, Changed,
                   ConstCandidates, StaticCandidates, Functions, Result,
                   Mutated, Dumped>>

(***************************************************************************)
(* DebugVariableDeclarations.                                              *)
(***************************************************************************)
DebugVariableDeclarationsOnFunctionDecl(F) ==
    /\ Visits(F)
    /\ isThisDeclarationADefinition(F)
    /\ F \notin CXXMethodDecls
    /\ State = "VariableDeclaration"
    /\ Result' = Result \cup GetVariablesFromContext(F, FALSE)
    /\ Current' = F
    /\ UNCHANGED <<Tree, State, Kind, Body, Candidates, Changed, ConstCandidates,
                   StaticCandidates, Functions, Mutated, Reports, Dumped, pc>>

DebugVariableDeclarationsOnCXXMethodDecl(F) ==
    /\ Visits(F)
    /\ isThisDeclarationADefinition(F)
    /\ F \in CXXMethodDecls
    /\ State = "VariableDeclaration"
    /\ Result' = Result \cup GetVariablesFromContext(F, ~ IsJustAMethod(F))
                        \cup GetVariablesFromRecord
    /\ Current' = F
    /\ UNCHANGED <<Tree, State, Kind, Body, Candidates, Changed, ConstCandidates,
                   StaticCandidates, Functions, Mutated, Reports, Dumped, pc>>

DebugVariableDeclarationsDump ==
    /\ pc = "traverse"
    /\ State = "VariableDeclaration"
    /\ Reports' = { ReportVariableDeclaration(V) : V \in Result }
    /\ pc' = "done"
    /\ UNCHANGED <<Tree, State, Kind, Visited, Current, Body, Candidates, Changed,
                   ConstCandidates, StaticCandidates, Functions, Result,
                   Mutated, Dumped>>

(***************************************************************************)
(* DebugVariableUsages and DebugVariableChanges: Dump analyses the body of *)
(* every collected function and reports its map, one function at a time.   *)
(***************************************************************************)
TraceDump ==
    /\ pc = "traverse"
    /\ State \in {"VariableChanges", "VariableUsages"}
    /\ pc' = IF Functions = {} THEN "done" ELSE "dump"
    /\ UNCHANGED <<Tree, State, Kind, Visited, Current, Body, Candidates, Changed,
                   ConstCandidates, StaticCandidates, Functions, Result,
                   Mutated, Reports, Dumped>>

\* UsageRefCollector::Report: one note for every usage of every key
DebugReport(Message, Keys) == { Report("note", Message, V) : V \in Keys }

DebugChanged(A) ==
    DebugReport("variable '%0' with type '%1' was changed", A.Changed)

DebugReferenced(A) ==
    DebugReport("variable '%0' was used", A.Used)

ReportVariableUsage(F) ==
    /\ pc = "dump"
    /\ F \in Functions \ Dumped
    /\ \E B \in Bodies(F) :
          /\ Body' = B
          /\ Reports' = Reports \cup
                (IF State = "VariableChanges"
                    THEN DebugChanged(AnalyseThis(B))
                    ELSE DebugReferenced(AnalyseThis(B)))
    /\ Current' = F
    /\ Dumped' = Dumped \cup {F}
    /\ pc' = IF Dumped' = Functions THEN "done" ELSE "dump"
    /\ UNCHANGED <<Tree, State, Kind, Visited, Candidates, Changed, ConstCandidates,
                   StaticCandidates, Functions, Result, Mutated>>

(***************************************************************************)
(* AnalyseVariableUsage, the visitor of the PseudoConstness target.  T is  *)
(* the visitor: the two sets of its PseudoConstnessAnalysisState and its   *)
(* two method sets.  Vs and Ms are the orders in which the two for_each    *)
(* loops run through the variable sets.                                    *)
(***************************************************************************)
Visitor ==
    [Candidates |-> Candidates, Changed |-> Changed,
     ConstCandidates |-> ConstCandidates,
     StaticCandidates |-> StaticCandidates]

OnFunctionDecl(T, F, Stmt, Vs) ==
    LET A == AnalyseThis(Stmt)
        S == EvalEach([Candidates |-> T.Candidates, Changed |-> T.Changed],
                      A, Vs)
    IN  [T EXCEPT !.Candidates = S.Candidates, !.Changed = S.Changed]

OnCXXMethodDecl(T, F, Stmt, Vs, Ms) ==
    LET A == AnalyseThis(Stmt)
        S == EvalEach([Candidates |-> T.Candidates, Changed |-> T.Changed],
                      A, Vs \o Ms)
        Verdict == MethodVerdict(F, A, Stmt)
    IN  [Candidates |-> S.Candidates,
         Changed |-> S.Changed,
         ConstCandidates |->
            IF Verdict = "const" THEN T.ConstCandidates \cup {F}
                                 ELSE T.ConstCandidates,
         StaticCandidates |->
            IF Verdict = "static" THEN T.StaticCandidates \cup {F}
                                  ELSE T.StaticCandidates]

\* the visitor's members after a handler has run
Becomes(T) ==
    /\ Candidates' = T.Candidates
    /\ Changed' = T.Changed
    /\ ConstCandidates' = T.ConstCandidates
    /\ StaticCandidates' = T.StaticCandidates

AnalyseVariableUsageOnFunctionDecl(F) ==
    /\ Visits(F)
    /\ isThisDeclarationADefinition(F)
    /\ F \notin CXXMethodDecls
    /\ State = "PseudoConstness"
    /\ \E B \in Bodies(F) :
       \E Vs \in Orders(GetVariablesFromContext(F, FALSE)) :
          /\ Body' = B
          /\ Becomes(OnFunctionDecl(Visitor, F, B, Vs))
          /\ Mutated' = Mutated \cup B.changed
    /\ Current' = F
    /\ UNCHANGED <<Tree, State, Kind, Functions, Result, Reports, Dumped, pc>>

AnalyseVariableUsageOnCXXMethodDecl(F) ==
    /\ Visits(F)
    /\ isThisDeclarationADefinition(F)
    /\ F \in CXXMethodDecls
    /\ State = "PseudoConstness"
    /\ \E B \in Bodies(F) :
       \E Vs \in Orders(GetVariablesFromContext(F, ~ IsJustAMethod(F))) :
       \E Ms \in Orders(GetMemberVariablesAndReferences) :
          /\ Body' = B
          /\ Becomes(OnCXXMethodDecl(Visitor, F, B, Vs, Ms))
          /\ Mutated' = Mutated \cup B.changed
    /\ Current' = F
    /\ UNCHANGED <<Tree, State, Kind, Functions, Result, Reports, Dumped, pc>>

AnalyseVariableUsageDump ==
    /\ pc = "traverse"
    /\ State = "PseudoConstness"
    /\ Reports' =
          GenerateReports([Candidates |-> Candidates, Changed |-> Changed])
          \cup { ReportFunctionPseudoConstness(F) :
                    F \in { M \in ConstCandidates : IsItFromMainModule(M) } }
          \cup { ReportFunctionPseudoStaticness(F) :
                    F \in { M \in StaticCandidates : IsItFromMainModule(M) } }
    /\ pc' = "done"
    /\ UNCHANGED <<Tree, State, Kind, Visited, Current, Body, Candidates, Changed,
                   ConstCandidates, StaticCandidates, Functions, Result,
                   Mutated, Dumped>>

(***************************************************************************)
(* ModuleAnalysis::HandleTranslationUnit: the traversal in the order of    *)
(* the declarations of the translation unit, then Dump.                    *)
(***************************************************************************)
Next ==
    \/ \E F \in FunctionDecls : VisitDeclaration(F)
    \/ \E F \in FunctionDecls : DebugFunctionDeclarationsOnDecl(F)
    \/ \E F \in FunctionDecls : DebugVariableDeclarationsOnFunctionDecl(F)
    \/ \E F \in FunctionDecls : DebugVariableDeclarationsOnCXXMethodDecl(F)
    \/ \E F \in FunctionDecls : AnalyseVariableUsageOnFunctionDecl(F)
    \/ \E F \in FunctionDecls : AnalyseVariableUsageOnCXXMethodDecl(F)
    \/ \E F \in FunctionDecls : ReportVariableUsage(F)
    \/ DebugFunctionDeclarationsDump
    \/ DebugVariableDeclarationsDump
    \/ TraceDump
    \/ AnalyseVariableUsageDump

Spec == Init /\ [][Next]_vars

(***************************************************************************)
(* The PseudoConstness run over ObjectVariables.cpp: OnFunctionDecl with   *)
(* the summary ScopeAnalysis::AnalyseThis computes from the body.          *)
(***************************************************************************)
InitObjectVariables ==
    /\ Init
    /\ State = "PseudoConstness"
    /\ Kind["X"] = Method

AnalyseVariableUsageOnBody(F) ==
    /\ pc = "traverse"
    /\ State = "PseudoConstness"
    /\ F \in ObjectVariables \ Visited
    /\ Visited' = Visited \cup {F}
    /\ \E Stmt \in getBody(F) :
       LET B == Traversals(Stmt)
       IN  \E Vs \in Orders(GetVariablesFromContext(F, FALSE)) :
              /\ Tree' = [Tree EXCEPT ![F] = Stmt]
              /\ Body' = B
              /\ Becomes(OnFunctionDecl(Visitor, F, B, Vs))
              /\ Mutated' = Mutated \cup B.changed
    /\ Current' = F
    /\ UNCHANGED <<State, Kind, Functions, Result, Reports, Dumped, pc>>

NextObjectVariables ==
    \/ \E F \in ObjectVariables : AnalyseVariableUsageOnBody(F)
    \/ AnalyseVariableUsageDump

SpecObjectVariables == InitObjectVariables /\ [][NextObjectVariables]_vars


(***************************************************************************)
(*                              Properties                                 *)
(***************************************************************************)
PseudoConstnessRun == State = "PseudoConstness"

\* C1: no variable declaration is in both Candidates and Changed, after any
\* sequence of Eval calls.
CandidatesDisjointFromChanged == Candidates \cap Changed = {}

\* f changed s and left its alias k alone: s is disqualified, k a candidate
CandidatesDisjointFromChangedWitness ==
    /\ Current = "f"
    /\ "s" \in Body.changed
    /\ "s" \in Changed
    /\ "k" \in Candidates

\* C2: a variable in Changed stays in Changed and is not in Candidates, in
\* every later state, also when a later scope evaluates it as not changed.
DisqualifiedForever ==
    [][\A V \in Variables :
          V \in Changed => (V \in Changed' /\ V \notin Candidates')]_vars

\* m was changed in set; X, analysed later, evaluates m and does not change it
DisqualifiedForeverWitness ==
    /\ Current = "X"
    /\ "set" \in Visited
    /\ "m" \in Changed
    /\ "m" \notin Body.changed
    /\ "m" \in Body.used

\* C3 (P2): at the end of the translation unit no candidate is the target of
\* a mutating expression of any analysed function body.
SoundnessOfConstVariable ==
    (PseudoConstnessRun /\ pc = "done") => Candidates \cap Mutated = {}

\* C6 (P5): a declaration whose non-reference type is const qualified is
\* never in Candidates.
AlreadyConstNeverCandidate == \A V \in Candidates : ~ getType(V).const

\* f was analysed and left c alone: c is neither disqualified nor a candidate
AlreadyConstNeverCandidateWitness ==
    /\ PseudoConstnessRun
    /\ Current = "f"
    /\ "c" \notin Changed
    /\ "c" \notin Candidates
    /\ "s" \in Candidates

\* C7 (P6): in every mode, no diagnostic is emitted for a declaration whose
\* location is outside the main file.
MainFileFilter == \A R \in Reports : isFromMainFile(R.name)

NotPlain(M) ==
    \/ Kind[M].isVirtual
    \/ Kind[M].isStatic
    \/ ~ Kind[M].isUserProvided
    \/ Kind[M].isCopyAssignmentOperator
    \/ Kind[M].class \in {"CXXConstructorDecl", "CXXDestructorDecl",
                          "CXXConversionDecl"}

\* C10: a method that is virtual, static, not user provided, a constructor,
\* a destructor, a copy assignment or a conversion operator is in neither
\* ConstCandidates nor StaticCandidates.
OnlyPlainMethodsGetVerdicts ==
    \A M \in ConstCandidates \cup StaticCandidates : ~ NotPlain(M)

\* a constructor with an empty body was analysed and got no verdict
OnlyPlainMethodsGetVerdictsWitness ==
    /\ PseudoConstnessRun
    /\ Current = "X"
    /\ Kind["X"].class = "CXXConstructorDecl"
    /\ Body = NoBody
    /\ "X" \notin ConstCandidates \cup StaticCandidates


\* the body records no change of a member variable of the record
ChangesNoMember(Stmt) ==
    \A V \in GetMemberVariablesAndReferences : V \notin Stmt.changed

\* the body refers to no peer method that is neither static nor const
RefersToNoMutatingPeer(Stmt) ==
    \A P \in GetMethodsFromRecord :
        (~ Kind[P].isStatic /\ ~ Kind[P].isConst) => P \notin Stmt.used

\* C4 (P3): a method enters ConstCandidates only in its own handler, and
\* then its scope summary records no change of a member variable of its
\* record and no reference to a non-static, non-const peer method.
SoundnessOfConstMethod ==
    [][\A M \in ConstCandidates' \ ConstCandidates :
          /\ M = Current'
          /\ ChangesNoMember(Body')
          /\ RefersToNoMutatingPeer(Body')]_vars

\* set reads the member m and nothing else: it could be declared as const
SoundnessOfConstMethodWitness ==
    /\ Current = "set"
    /\ "set" \in ConstCandidates
    /\ Body.used = {"m"}
    /\ Body.changed = {}

\* C5 (P4): a method enters StaticCandidates only in its own handler, and
\* then its body meets the pseudo-const conditions, refers to no member
\* variable and to no non-static peer method, and does not mention the
\* enclosing instance.
SoundnessOfStaticMethod ==
    [][\A M \in StaticCandidates' \ StaticCandidates :
          /\ M = Current'
          /\ ChangesNoMember(Body')
          /\ RefersToNoMutatingPeer(Body')
          /\ \A V \in GetMemberVariablesAndReferences : V \notin Body'.used
          /\ \A P \in GetMethodsFromRecord :
                (~ Kind[P].isStatic) => P \notin Body'.used
          /\ ~ Body'.this]_vars

\* set calls the static method X and nothing else: it could be static
SoundnessOfStaticMethodWitness ==
    /\ Current = "set"
    /\ "set" \in StaticCandidates
    /\ Kind["X"].isStatic
    /\ Body.used = {"X"}

\* the function definitions the traversal has not reached yet
Unvisited == { F \in FunctionDecls \ Visited : isThisDeclarationADefinition(F) }

\* the visitors the handler of F can leave behind, over all iteration orders
Runs(T, F, Stmt) ==
    IF F \in CXXMethodDecls
        THEN { OnCXXMethodDecl(T, F, Stmt, Vs, Ms) :
                 Vs \in Orders(GetVariablesFromContext(F, ~ IsJustAMethod(F))),
                 Ms \in Orders(GetMemberVariablesAndReferences) }
        ELSE { OnFunctionDecl(T, F, Stmt, Vs) :
                 Vs \in Orders(GetVariablesFromContext(F, FALSE)) }

\* some order of a set
RECURSIVE SomeOrder(_)
SomeOrder(Set) ==
    IF Set = {} THEN << >>
    ELSE LET x == CHOOSE y \in Set : TRUE
         IN  <<x>> \o SomeOrder(Set \ {x})

\* the visitor the handler of F leaves behind for one iteration order
Run(T, F, Stmt) ==
    IF F \in CXXMethodDecls
        THEN OnCXXMethodDecl(T, F, Stmt,
                 SomeOrder(GetVariablesFromContext(F, ~ IsJustAMethod(F))),
                 SomeOrder(GetMemberVariablesAndReferences))
        ELSE OnFunctionDecl(T, F, Stmt,
                 SomeOrder(GetVariablesFromContext(F, FALSE)))

\* the function definitions in the order of their declaration
Definitions == <<"f", "set", "X">>

\* C8: the verdicts do not depend on the order.  From every state of the
\* traversal, (1) the handler of any function definition still to come, with
\* any body, leaves the same Candidates, Changed, ConstCandidates and
\* StaticCandidates for every iteration order of its variable sets, and
\* (2) the handlers of any two definitions still to come, with any bodies,
\* leave the same four sets in either order.  Every state between two
\* handlers is a state of the traversal, and exchanges of neighbours
\* generate every permutation.
OrderIndependent ==
    (PseudoConstnessRun /\ pc = "traverse") =>
        /\ \A F \in Unvisited : \A StmtF \in Bodies(F) :
              Runs(Visitor, F, StmtF) = { Run(Visitor, F, StmtF) }
        /\ \A i, j \in 1..Len(Definitions) :
              (/\ i < j
               /\ Definitions[i] \in Unvisited
               /\ Definitions[j] \in Unvisited) =>
                  \A StmtF \in Bodies(Definitions[i]) :
                  \A StmtG \in Bodies(Definitions[j]) :
                      Run(Run(Visitor, Definitions[i], StmtF),
                          Definitions[j], StmtG)
                    = Run(Run(Visitor, Definitions[j], StmtG),
                          Definitions[i], StmtF)

\* X changed m; set, analysed after it, evaluates m and does not change it,
\* and f is still to come
OrderIndependentWitness ==
    /\ PseudoConstnessRun
    /\ Visited = {"X", "set"}
    /\ Current = "set"
    /\ "m" \in Changed
    /\ "m" \notin Body.changed

\* the object at the head of a member access or of a chain of member calls
RECURSIVE HeadOf(_)
HeadOf(E) ==
    IF E.class = "DeclRefExpr" THEN E.decl
    ELSE IF E.class \in {"MemberExpr", "CXXMemberCallExpr", "ImplicitCastExpr"}
        THEN HeadOf(E.children[1])
    ELSE ""

\* Stmt calls a non-const, non-static method through a member access whose
\* object, directly or at the head of a chain of calls, is V
CalledNonConst(V, Stmt) ==
    \E N \in Range(TraverseStmt(Stmt)) :
        /\ N.class = "MemberExpr"
        /\ N.decl \in MethodNames
        /\ ~ hasConstTypeQuals(N.decl)
        /\ ~ isStaticMethod(N.decl)
        /\ HeadOf(N) = V

\* Stmt names V, and only as the object of calls of const methods
OnlyConstCalled(V, Stmt) ==
    /\ \E N \in Range(TraverseStmt(Stmt)) : N = DeclRefExpr(V)
    /\ \A N \in Range(TraverseStmt(Stmt)) :
          \A I \in 1..Len(N.children) :
              N.children[I] = DeclRefExpr(V) =>
                  /\ N.class = "MemberExpr"
                  /\ N.decl \in MethodNames
                  /\ hasConstTypeQuals(N.decl)
    /\ ~ CalledNonConst(V, Stmt)

\* the diagnostics that name V
ReportsOf(V) == { R \in Reports : R.name = V }

\* C11: a non-const local object on which the body calls a non-const,
\* non-static method through a member access, directly or as the head of a
\* chained call, is recorded as changed, is disqualified, and gets no
\* warning; a non-const local object the body uses through calls of const
\* methods only is a candidate and gets exactly one warning, 'could be
\* declared as const'.
MemberCallRule ==
    \A F \in Visited \cap ObjectVariables :
    \A V \in { W \in LocalsOf(F) : ~ IsConst(W) } :
        /\ CalledNonConst(V, Tree[F]) =>
              /\ V \in Mutated
              /\ V \in Changed
              /\ V \notin Candidates
              /\ pc = "done" => ReportsOf(V) = {}
        /\ OnlyConstCalled(V, Tree[F]) =>
              /\ V \in Candidates
              /\ pc = "done" =>
                    ReportsOf(V) = { ReportVariablePseudoConstness(V) }

\* test_method held o.setId(j).setId(1) and the run has ended with o changed
MemberCallRuleWitness ==
    /\ pc = "done"
    /\ "test_method" \in Visited
    /\ \E S \in Range(Tree["test_method"].children) :
          /\ S.class = "CXXMemberCallExpr"
          /\ S.children[1].children[1].class = "CXXMemberCallExpr"
          /\ HeadOf(S) = "o"
    /\ "o" \in Changed

\* the variable an argument expression names
RECURSIVE ArgumentVariable(_)
ArgumentVariable(E) ==
    IF E.class = "DeclRefExpr"
        THEN IF E.decl \in Variables THEN E.decl ELSE ""
    ELSE IF E.class \in {"MemberExpr", "ImplicitCastExpr", "UnaryOperator"}
        THEN ArgumentVariable(E.children[1])
    ELSE ""

\* parameter It of F is a reference or a pointer to a non-const type
ToNonConst(F, It) ==
    /\ It < getNumParams(F)
    /\ getParamDecls(F)[It + 1].reference \/ getParamDecls(F)[It + 1].pointer
    /\ ~ getParamDecls(F)[It + 1].const

\* parameter It of F is a reference or a pointer to a const type
ToConst(F, It) ==
    /\ It < getNumParams(F)
    /\ getParamDecls(F)[It + 1].reference \/ getParamDecls(F)[It + 1].pointer
    /\ getParamDecls(F)[It + 1].const

\* the calls with a direct callee below Stmt
DirectCalls(Stmt) ==
    { N \in Range(TraverseStmt(Stmt)) : isCallExpr(N) /\ getDirectCallee(N) # "" }

\* Stmt names the variable V
Names(Stmt, V) == \E N \in Range(TraverseStmt(Stmt)) : N = DeclRefExpr(V)

\* the variables that refer to V: V and the references bound to it
Aliases(V) == { W \in Variables : V \in GetReferedVariables(W) }

\* the expression statements of the body of F, after its declarations
ExpressionStmts(F) ==
    { Tree[F].children[I] : I \in (Len(Decls(F)) + 1)..Len(Tree[F].children) }

\* the body of F passes V to a parameter that refers to a non-const type
PassedToNonConst(V, F) ==
    \E N \in DirectCalls(Tree[F]) :
    \E It \in 0..(getNumArgs(N) - 1) :
        /\ ArgumentVariable(getArg(N, It)) = V
        /\ ToNonConst(getDirectCallee(N), It)

\* the statements of F pass V, and do nothing else with V or a reference
\* bound to it than pass it where the parameter refers to a const type or
\* where the callee declares no parameter
PassedToConstOnly(V, F) ==
    /\ \E S \in ExpressionStmts(F) : Names(S, V)
    /\ \A S \in ExpressionStmts(F) :
          (\E W \in Aliases(V) : Names(S, W)) =>
              /\ S.class = "CallExpr"
              /\ getDirectCallee(S) # ""
              /\ \A It \in 0..(getNumArgs(S) - 1) :
                    \/ It >= getNumParams(getDirectCallee(S))
                    \/ ToConst(getDirectCallee(S), It)

\* C12: at a call with a direct callee, the variable of argument i is
\* recorded as changed by the parameter rule, with the pointee of the
\* parameter type as its type, exactly when i < min(numArgs, numParams) and
\* parameter i is a reference or a pointer to a non-const type.  Hence a
\* local passed to such a parameter is disqualified, and a local passed to
\* const references only (or beyond the declared parameters) is a candidate.
ParameterRule ==
    \A F \in Visited \cap ObjectVariables :
        /\ \A N \in DirectCalls(Tree[F]) :
           \A It \in 0..(getNumArgs(N) - 1) :
              LET V == ArgumentVariable(getArg(N, It))
                  G == getDirectCallee(N)
              IN  V # "" =>
                    /\ ToNonConst(G, It) <=>
                          (\E U \in VisitCallExpr(N) : U.decl = V)
                    /\ ToNonConst(G, It) =>
                          [decl |-> V,
                           type |-> ValueType(getParamDecls(G)[It + 1].name,
                                              FALSE)] \in VisitCallExpr(N)
        /\ \A V \in { W \in LocalsOf(F) : ~ IsConst(W) } :
              /\ PassedToNonConst(V, F) =>
                    /\ V \in Mutated
                    /\ V \in Changed
                    /\ V \notin Candidates
              /\ PassedToConstOnly(V, F) =>
                    /\ V \notin Mutated
                    /\ V \in Candidates

\* f held change(s.m_id) and the run has ended with s disqualified
ParameterRuleWitness ==
    /\ pc = "done"
    /\ "f" \in Visited
    /\ CallExpr("change", << MemberExpr(DeclRefExpr("s"), "m_id") >>)
          \in ExpressionStmts("f")
    /\ "s" \in Changed
    /\ "s" \notin Candidates

\* what V refers to: a variable that is no reference is its own referent, a
\* reference refers to what the variables of its initializer refer to
RECURSIVE Referents(_)
Referents(V) ==
    IF getType(V).reference
        THEN UNION { Referents(U) : U \in getInit(V) }
        ELSE {V}

\* the analysis state with any set of candidates put in earlier
AnalysisStates ==
    { [Candidates |-> C, Changed |-> Changed] : C \in SUBSET Variables }

\* k = 3, as an expression statement
AssignsK == BinaryOperator("=", DeclRefExpr("k"), IntegerLiteral)

\* C13: when Eval is called for a variable V the scope summary records as
\* changed, every variable V refers to is in Changed and not in Candidates
\* afterwards, whatever Candidates held before.  Hence with
\* 'Public s; int & k = s.m_id; k = 3;' neither s nor k is a candidate at
\* the end, and without a statement on s or k, s (bound to the const
\* reference c) is a candidate.
ReferenceAliasing ==
    /\ \A V \in Body.changed \cap Variables :
       \A S \in AnalysisStates :
          /\ Referents(V) \subseteq Eval(S, AnalyseThis(Body), V).Changed
          /\ Referents(V) \cap Eval(S, AnalyseThis(Body), V).Candidates = {}
    /\ ("f" \in Visited /\ AssignsK \in ExpressionStmts("f")) =>
          /\ "s" \in Changed
          /\ "s" \notin Candidates
          /\ "k" \notin Candidates
          /\ pc = "done" => (ReportsOf("s") = {} /\ ReportsOf("k") = {})
    /\ ("f" \in Visited /\ \A S \in ExpressionStmts("f") :
                              ~ Names(S, "s") /\ ~ Names(S, "k")) =>
          /\ "s" \in Candidates
          /\ pc = "done" =>
                ReportsOf("s") = { ReportVariablePseudoConstness("s") }

\* f held k = 3 and no statement that changes s: at the end of the run s is
\* disqualified through the reference k
ReferenceAliasingWitness ==
    /\ pc = "done"
    /\ "f" \in Visited
    /\ AssignsK \in ExpressionStmts("f")
    /\ "s" \notin Mutated
    /\ "s" \in Changed
    /\ "k" \notin Candidates

\* the calls below Stmt written with an operator whose callee is a
\* non-const, non-static member operator function
MemberOperatorCalls(Stmt) ==
    { N \in DirectCalls(Stmt) :
        /\ N.class = "CXXOperatorCallExpr"
        /\ getDirectCallee(N) \in MethodNames
        /\ ~ hasConstTypeQuals(getDirectCallee(N))
        /\ ~ isStaticMethod(getDirectCallee(N)) }

\* C14: at a call of a non-const, non-static member operator function
\* written as an operator call, the object, argument 0, is recorded as
\* changed, and declared parameter i is paired with argument i + 1: the
\* operand bound to a parameter that refers to a non-const type is recorded
\* as changed.
OperatorCallRule ==
    \A F \in Visited \cap ObjectVariables :
    \A N \in MemberOperatorCalls(Tree[F]) :
        /\ ArgumentVariable(getArg(N, 0)) \in Traversals(Tree[F]).changed
        /\ \A It \in 0..(getNumParams(getDirectCallee(N)) - 1) :
              (It + 1 < getNumArgs(N) /\ ToNonConst(getDirectCallee(N), It)) =>
                  ArgumentVariable(getArg(N, It + 1))
                      \in Traversals(Tree[F]).changed

\* the warnings on the method M
MethodWarnings(M) ==
    Reports \cap { ReportFunctionPseudoConstness(M),
                   ReportFunctionPseudoStaticness(M) }

\* C15: after any sequence of method definitions, each visited once, no
\* method is in both ConstCandidates and StaticCandidates, and no method
\* declared const is in ConstCandidates; a method gets at most one of the
\* two method warnings.
AtMostOneMethodVerdict ==
    /\ ConstCandidates \cap StaticCandidates = {}
    /\ \A M \in ConstCandidates : ~ Kind[M].isConst
    /\ \A M \in CXXMethodDecls : Cardinality(MethodWarnings(M)) <= 1

\* X is declared const and reads the member m: it is analysed after set got
\* its verdict, and is put into neither set
AtMostOneMethodVerdictWitness ==
    /\ Current = "X"
    /\ Kind["X"].isConst
    /\ IsJustAMethod("X")
    /\ Body.used = {"m"}
    /\ Body.changed = {}
    /\ "set" \in ConstCandidates \cup StaticCandidates
    /\ "X" \notin ConstCandidates \cup StaticCandidates

====
